---- MODULE Spec2Model ----
(***************************************************************************)
(* Model of pigeonhole: the AEAD key ladder and chunk codec                *)
(* (src/src/crypto/aead), the file chunker (src/src/file.rs and            *)
(* src/src/buf_reader.rs) and the zeroizing allocator                      *)
(* (src/src/zeroize_allocator.rs).  Each component has its own             *)
(* specification over its own variables: Spec, SpecProducer and            *)
(* SpecIterator, SpecFile and SpecReader, SpecAlloc.                       *)
(*                                                                         *)
(* Bytes are naturals in 0..255.  A u32 is a sequence of two 16-bit limbs  *)
(* and a u64 a sequence of four, least significant limb first, so that the *)
(* full width of chunk_id (and its overflow) is represented.               *)
(* Key material is modelled symbolically: the output of HKDF is the        *)
(* sequence that records its salt, info and input key material, so two     *)
(* derivations agree exactly when their inputs agree.                      *)
(***************************************************************************)
EXTENDS Integers, Sequences, FiniteSets, TLC

(* ------------------------------ bounds --------------------------------- *)

\* longest plaintext handed to encrypt
MaxLen == 1
\* number of successor operations applied to the held key in one behaviour
MaxSteps == 2
\* number of chunks the producer seals in one behaviour
MaxSealed == 1
\* largest distance ratchet_to is asked to cover
MaxRatchet == 2
\* number of chunks a producer encrypts in a row
MaxChunks == 3
\* longest file on disk, in bytes
MaxFileLen == 17
\* number of iter() and chunk() calls on one File
MaxIters == 3
\* number of next() calls on one iterator
MaxNexts == 5
\* number of reads that fail in one behaviour
MaxIoErrors == 1
\* number of blocks of the inner allocator, and the largest layout size
MaxBlocks == 2
MaxSize == 2

(* --------------------------- program constants ------------------------- *)

NONCE_SIZE == 12
TAG_SIZE == 16
AES_GCM_KEY_NAME == <<97, 101, 115, 103, 99, 109, 32, 115, 101, 101, 100>>
AES_GCM_RATCHET_NAME ==
  <<97, 101, 115, 103, 99, 109, 32, 114, 97, 116, 99, 104, 101, 116>>

(* ------------------------- fixed-width integers ------------------------ *)

U64_MAX == <<65535, 65535, 65535, 65535>>

\* n as a word of w limbs (n small)
Word(n, w) == [i \in 1..w |-> IF i = 1 THEN n ELSE 0]

RECURSIVE WrappingSucc(_)
\* x + 1 modulo 2^(16 * Len(x))
WrappingSucc(x) ==
  IF x = <<>> THEN <<>>
  ELSE IF Head(x) = 65535 THEN <<0>> \o WrappingSucc(Tail(x))
  ELSE <<Head(x) + 1>> \o Tail(x)

RECURSIVE WordLt(_, _)
\* a < b for two words of the same width
WordLt(a, b) ==
  LET n == Len(a) IN
  IF n = 0 THEN FALSE
  ELSE IF a[n] # b[n] THEN a[n] < b[n]
  ELSE WordLt(SubSeq(a, 1, n - 1), SubSeq(b, 1, n - 1))

RECURSIVE WordAdd(_, _)
\* x + n modulo the width, n a small natural
WordAdd(x, n) == IF n = 0 THEN x ELSE WordAdd(WrappingSucc(x), n - 1)

\* uN::to_le_bytes
to_le_bytes(x) ==
  [i \in 1..(2 * Len(x)) |->
     IF i % 2 = 1 THEN x[(i + 1) \div 2] % 256 ELSE x[i \div 2] \div 256]

\* uN::from_le_bytes
from_le_bytes(b) ==
  [i \in 1..(Len(b) \div 2) |-> b[2 * i - 1] + 256 * b[2 * i]]

(* ------------------------------ results -------------------------------- *)

NoKey == [full_key |-> <<>>, key_index |-> <<>>, file_id |-> <<>>,
          chunk_id |-> <<>>]
NoChunk == [encryption_type |-> "None", key_index |-> <<>>, file_id |-> <<>>,
            chunk_id |-> <<>>, encrypted_data |-> <<>>]

Result(status, err, code, key, chunk, data) ==
  [status |-> status, err |-> err, code |-> code, key |-> key,
   chunk |-> chunk, data |-> data]

OkKey(k) == Result("Ok", "", 0, k, NoChunk, <<>>)
OkChunk(c) == Result("Ok", "", 0, NoKey, c, <<>>)
OkData(d) == Result("Ok", "", 0, NoKey, NoChunk, d)
Err(e, code) == Result("Err", e, code, NoKey, NoChunk, <<>>)
\* the call aborts (index out of range, arithmetic overflow check)
Panic == Result("Panic", "", 0, NoKey, NoChunk, <<>>)
\* the call is still looping after MaxRatchet iterations
Diverged == Result("Diverged", "", 0, NoKey, NoChunk, <<>>)
NoResult == Result("None", "", 0, NoKey, NoChunk, <<>>)

(* ---------------------------- EncryptionType --------------------------- *)

EncryptionTypes == {"AesGcm", "XChaCha20Poly1305"}

\* impl From<EncryptionType> for u8, and the discriminant of `as u8`
EncryptionTypeToU8(t) == IF t = "AesGcm" THEN 0 ELSE 1

\* the unknown tag defaults to AesGcm
EncryptionTypeTryFromDefaulting(value) ==
  IF value = 1 THEN [ok |-> TRUE, etype |-> "XChaCha20Poly1305", code |-> value]
  ELSE [ok |-> TRUE, etype |-> "AesGcm", code |-> value]

\* the reserved tag 1 is refused like an unknown one
EncryptionTypeTryFromAesOnly(value) ==
  IF value = 0 THEN [ok |-> TRUE, etype |-> "AesGcm", code |-> value]
  ELSE [ok |-> FALSE, etype |-> "None", code |-> value]

\* impl TryFrom<u8> for EncryptionType
EncryptionTypeTryFrom(value) ==
  IF value = 0 THEN [ok |-> TRUE, etype |-> "AesGcm", code |-> value]
  ELSE IF value = 1
       THEN [ok |-> TRUE, etype |-> "XChaCha20Poly1305", code |-> value]
  ELSE [ok |-> FALSE, etype |-> "None", code |-> value]

(* ------------------------------- AesGcmKey ----------------------------- *)

\* HKDF-SHA512 extract-then-expand to 64 bytes, as the record of its inputs
derive_key_bytes(ikm, salt, info) ==
  <<Len(salt)>> \o salt \o <<Len(info)>> \o info \o ikm

\* full_key[..32]
encryption_key(full_key) == <<0>> \o full_key

\* full_key[32..]
chain_key(full_key) == <<1>> \o full_key

RECURSIVE Digest(_)
\* a digest standing for the AES and GHASH primitives
Digest(s) ==
  IF Len(s) = 0 THEN 7
  ELSE IF Len(s) = 1 THEN (s[1] * 131 + 11) % 65521
  ELSE LET m == Len(s) \div 2
       IN (Digest(SubSeq(s, 1, m)) * 31 + Digest(SubSeq(s, m + 1, Len(s))) * 17
             + Len(s)) % 65521

KeyStream(key, nonce, i) == Digest(<<i>> \o nonce \o key) % 256

GcmTag(key, nonce, ct) ==
  [i \in 1..TAG_SIZE |-> Digest(<<i, Len(ct)>> \o ct \o nonce \o key) % 256]

\* Aes256Gcm::encrypt: ciphertext of the length of the plaintext, then the tag
AeadSeal(key, nonce, data) ==
  LET ct == [i \in 1..Len(data) |-> (data[i] + KeyStream(key, nonce, i)) % 256]
  IN ct \o GcmTag(key, nonce, ct)

\* Aes256Gcm::decrypt: fails on a buffer shorter than the tag or a wrong tag
AeadOpen(key, nonce, cipher_text) ==
  IF Len(cipher_text) < TAG_SIZE THEN Err("AesGcm", 0)
  ELSE LET n == Len(cipher_text) - TAG_SIZE
           ct == SubSeq(cipher_text, 1, n)
           tag == SubSeq(cipher_text, n + 1, Len(cipher_text))
       IN IF tag # GcmTag(key, nonce, ct) THEN Err("AesGcm", 0)
          ELSE OkData([i \in 1..n |->
                         (ct[i] + 256 - KeyStream(key, nonce, i)) % 256])

\* AesGcmKey::encrypt with the nonce the RNG produced
AesGcmKeyEncrypt(full_key, nonce, data) ==
  [nonce |-> nonce,
   cipher_text |-> AeadSeal(encryption_key(full_key), nonce, data)]

\* the key is expanded from the chain half
AesGcmKeyDecryptChainHalf(full_key, nonce, cipher_text) ==
  AeadOpen(chain_key(full_key), nonce, cipher_text)

\* AesGcmKey::decrypt
AesGcmKeyDecrypt(full_key, nonce, cipher_text) ==
  AeadOpen(encryption_key(full_key), nonce, cipher_text)

(* ------------------------------ key ladder ----------------------------- *)

\* RootAeadKey::generate
RootKeyGenerate(prk) == derive_key_bytes(prk, AES_GCM_KEY_NAME, <<>>)

\* RootAeadKey::index
RootKeyIndex(root, key_index) ==
  [full_key |-> derive_key_bytes(chain_key(root), AES_GCM_KEY_NAME,
                                 to_le_bytes(key_index)),
   key_index |-> key_index]

\* AesGcmRatchetingKey::key_info
key_info(key_index, file_id) == to_le_bytes(key_index) \o file_id

\* AesGcmRatchetingKey::new
RatchetingKeyNew(full_key, key_index, file_id) ==
  [full_key |-> full_key, key_index |-> key_index, file_id |-> file_id,
   chunk_id |-> Word(0, 4)]

\* IndexedAeadKey::key_for
IndexedKeyFor(indexed, file_id) ==
  RatchetingKeyNew(
    derive_key_bytes(chain_key(indexed.full_key), AES_GCM_KEY_NAME,
                     key_info(indexed.key_index, file_id)),
    indexed.key_index, file_id)

\* the successor keeps the position of the key it comes from
next_key_in_place(self, checks) ==
  LET okm == derive_key_bytes(chain_key(self.full_key),
                              AES_GCM_RATCHET_NAME, <<>>)
  IN IF checks /\ self.chunk_id = U64_MAX THEN Panic
     ELSE OkKey([full_key |-> okm, key_index |-> self.key_index,
                 file_id |-> self.file_id, chunk_id |-> self.chunk_id])

\* RatchetingAeadKey::next_key; checks = the build traps integer overflow
next_key(self, checks) ==
  LET okm == derive_key_bytes(chain_key(self.full_key),
                              AES_GCM_RATCHET_NAME, <<>>)
  IN IF checks /\ self.chunk_id = U64_MAX THEN Panic
     ELSE OkKey([full_key |-> okm, key_index |-> self.key_index,
                 file_id |-> self.file_id,
                 chunk_id |-> WrappingSucc(self.chunk_id)])

\* the identity test leaves the file out
is_key_for_any_file(self, encrypted_chunk) ==
  /\ self.key_index = encrypted_chunk.key_index
  /\ self.chunk_id = encrypted_chunk.chunk_id

\* RatchetingAeadKey::is_key_for
is_key_for(self, encrypted_chunk) ==
  /\ self.key_index = encrypted_chunk.key_index
  /\ self.file_id = encrypted_chunk.file_id
  /\ self.chunk_id = encrypted_chunk.chunk_id

\* the position test accepts the key's own position
can_ratchet_to_inclusive(self, encrypted_chunk) ==
  /\ self.key_index = encrypted_chunk.key_index
  /\ self.file_id = encrypted_chunk.file_id
  /\ ~WordLt(encrypted_chunk.chunk_id, self.chunk_id)

\* RatchetingAeadKey::can_ratchet_to
can_ratchet_to(self, encrypted_chunk) ==
  /\ self.key_index = encrypted_chunk.key_index
  /\ self.file_id = encrypted_chunk.file_id
  /\ WordLt(self.chunk_id, encrypted_chunk.chunk_id)

RECURSIVE RatchetLoop(_, _, _, _)
\* the while loop of ratchet_to, followed for at most fuel iterations
RatchetLoop(key, encrypted_chunk, checks, fuel) ==
  IF is_key_for(key, encrypted_chunk) THEN OkKey(key)
  ELSE IF fuel = 0 THEN Diverged
  ELSE LET r == next_key(key, checks)
       IN IF r.status # "Ok" THEN r
          ELSE RatchetLoop(r.key, encrypted_chunk, checks, fuel - 1)

\* one step is taken whatever the distance
ratchet_to_one_step(self, encrypted_chunk, checks) ==
  IF can_ratchet_to(self, encrypted_chunk)
  THEN next_key(self, checks)
  ELSE Err("InvalidChunkDeriveError", 0)

\* RatchetingAeadKey::ratchet_to
ratchet_to(self, encrypted_chunk, checks) ==
  IF can_ratchet_to(self, encrypted_chunk)
  THEN LET r == next_key(self, checks)
       IN IF r.status # "Ok" THEN r
          ELSE RatchetLoop(r.key, encrypted_chunk, checks, MaxRatchet)
  ELSE Err("InvalidChunkDeriveError", 0)

(* ---------------------------- AesGcmEncryptedChunk --------------------- *)

\* AesGcmEncryptedChunk::encryption_data
encryption_data(nonce, cipher_text) == nonce \o cipher_text

\* AesGcmEncryptedChunk::from_bytes followed by From<..> for EncryptedChunk
EncryptedChunkFrom(key, nonce, cipher_text) ==
  [encryption_type |-> "AesGcm", key_index |-> key.key_index,
   file_id |-> key.file_id, chunk_id |-> key.chunk_id,
   encrypted_data |-> encryption_data(nonce, cipher_text)]

\* impl TryFrom<EncryptedChunk> for AesGcmEncryptedChunk
AesGcmEncryptedChunkTryFrom(data) ==
  IF data.encryption_type # "AesGcm"
  THEN [status |-> "Err", err |-> "InvalidEncryptionType",
        code |-> EncryptionTypeToU8(data.encryption_type),
        nonce |-> <<>>, cipher_text |-> <<>>]
  ELSE IF Len(data.encrypted_data) < NONCE_SIZE
  THEN [status |-> "Panic", err |-> "", code |-> 0,
        nonce |-> <<>>, cipher_text |-> <<>>]
  ELSE [status |-> "Ok", err |-> "", code |-> 0,
        nonce |-> SubSeq(data.encrypted_data, 1, NONCE_SIZE),
        cipher_text |-> SubSeq(data.encrypted_data, NONCE_SIZE + 1,
                               Len(data.encrypted_data))]

(* ------------------------- encrypt and decrypt ------------------------- *)

\* RatchetingAeadKey::encrypt with the nonce the RNG produced
encrypt(self, data, nonce, checks) ==
  LET sealed_data == AesGcmKeyEncrypt(self.full_key, nonce, data)
      chunk == EncryptedChunkFrom(self, sealed_data.nonce,
                                  sealed_data.cipher_text)
      next == next_key(self, checks)
  IN IF next.status # "Ok" THEN next
     ELSE Result("Ok", "", 0, next.key, chunk, <<>>)

\* RatchetingAeadKey::decrypt
decrypt(self, data, checks) ==
  LET key == IF is_key_for(self, data) THEN OkKey(self)
             ELSE ratchet_to(self, data, checks)
  IN IF key.status # "Ok" THEN key
     ELSE LET parsed_data == AesGcmEncryptedChunkTryFrom(data)
          IN IF parsed_data.status = "Err"
             THEN Err(parsed_data.err, parsed_data.code)
             ELSE IF parsed_data.status = "Panic" THEN Panic
             ELSE AesGcmKeyDecrypt(self.full_key, parsed_data.nonce,
                                   parsed_data.cipher_text)

\* Iterator::next
IteratorNext(self, checks) ==
  LET r == next_key(self, checks)
  IN IF r.status = "Ok" THEN r
     ELSE IF r.status = "Err" THEN Result("NoneOpt", "", 0, NoKey, NoChunk, <<>>)
     ELSE r

(* ------------------------------- codec --------------------------------- *)

\* key_index is written most significant byte first
to_bytes_big_endian(chunk) ==
  <<EncryptionTypeToU8(chunk.encryption_type)>>
    \o [i \in 1..4 |-> to_le_bytes(chunk.key_index)[5 - i]]
    \o chunk.file_id
    \o to_le_bytes(chunk.chunk_id)
    \o chunk.encrypted_data

\* EncryptedChunk::to_bytes
to_bytes(chunk) ==
  <<EncryptionTypeToU8(chunk.encryption_type)>>
    \o to_le_bytes(chunk.key_index)
    \o chunk.file_id
    \o to_le_bytes(chunk.chunk_id)
    \o chunk.encrypted_data

\* encrypted_chunk[lo..hi]
Slice(b, lo, hi) == SubSeq(b, lo + 1, hi)

\* EncryptedChunk::parse; an index or a range past the end aborts
parse(encrypted_chunk) ==
  IF Len(encrypted_chunk) < 1 THEN Panic
  ELSE LET encryption_type == EncryptionTypeTryFrom(encrypted_chunk[1])
       IN IF ~encryption_type.ok
          THEN Err("InvalidEncryptionType", encryption_type.code)
          ELSE IF Len(encrypted_chunk) < 5 THEN Panic
          ELSE IF Len(encrypted_chunk) < 17 THEN Panic
          ELSE IF Len(encrypted_chunk) < 25 THEN Panic
          ELSE OkChunk(
            [encryption_type |-> encryption_type.etype,
             key_index |-> from_le_bytes(Slice(encrypted_chunk, 1, 5)),
             file_id |-> Slice(encrypted_chunk, 1, 17),
             chunk_id |-> from_le_bytes(Slice(encrypted_chunk, 17, 25)),
             encrypted_data |->
               Slice(encrypted_chunk, 25, Len(encrypted_chunk))])

(* ------------------------------- inputs -------------------------------- *)

PRK == [i \in 1..32 |-> 0]

KeyIndexes == {<<513, 1027>>, <<1, 0>>}
FileIds == {[i \in 1..16 |-> 16 + i], [i \in 1..16 |-> 160 + i]}
Nonces == {[i \in 1..NONCE_SIZE |-> 0], [i \in 1..NONCE_SIZE |-> 40 + i]}
PlainBytes == {200}
TagBytes == {0, 1, 2, 255}

RECURSIVE SeqsUpTo(_, _)
SeqsUpTo(S, n) ==
  IF n = 0 THEN {<<>>}
  ELSE LET shorter == SeqsUpTo(S, n - 1)
       IN shorter \cup {Append(q, x) : q \in {r \in shorter : Len(r) = n - 1},
                                       x \in S}

Plaintexts == SeqsUpTo(PlainBytes, MaxLen)

\* positions a chunk may name: the first ones and the last two of a u64
Positions ==
  {Word(n, 4) : n \in 0..MaxRatchet}
    \cup {U64_MAX, <<65534, 65535, 65535, 65535>>}

\* the key a caller starts from: the one key_for returns, or a key that an
\* earlier chain has brought next to the end of the u64 range
StartKeys ==
  LET first == IndexedKeyFor(
                 RootKeyIndex(RootKeyGenerate(PRK), <<513, 1027>>),
                 [i \in 1..16 |-> 16 + i])
  IN {first, [first EXCEPT !.full_key = <<9>>,
                           !.chunk_id = <<65534, 65535, 65535, 65535>>]}

\* c.chunk_id is at most MaxRatchet positions after k.chunk_id
WithinReach(k, c) ==
  \E n \in 0..MaxRatchet :
     /\ WordAdd(k.chunk_id, n) = c.chunk_id
     /\ ~WordLt(c.chunk_id, k.chunk_id)

(* -------------------------------- state -------------------------------- *)

VARIABLES
  overflow_checks,  \* the build traps integer overflow (debug) or wraps
  origin,           \* the RatchetingKey the caller holds from the start
  key,              \* the key reached from origin by successor operations
  steps,            \* number of successor operations applied so far
  sealed,           \* chunks produced by encrypt, with plaintext and key
  last              \* the last call: operation, arguments and result

VARIABLES
  disk,             \* the bytes of the file at File.path
  manifest,         \* File.manifest: content_ids and complete
  reader,           \* the BufReader of the live FileIterator, if any
  trace             \* what the iterators of this File have returned so far

VARIABLES
  cfg_test,         \* the build has cfg(test): the dealloc switch exists
  dealloc_enabled,  \* ZeroizeAllocator.dealloc_enabled
  memory,           \* the blocks of the inner allocator, by address
  alloc_call        \* the last allocator call and what it handed back

cryptoVars == <<overflow_checks, origin, key, steps, sealed, last>>
fileVars == <<disk, manifest, reader, trace>>
allocVars == <<cfg_test, dealloc_enabled, memory, alloc_call>>
vars == <<cryptoVars, fileVars, allocVars>>

\* no File has been opened
NoFile ==
  /\ disk = <<>>
  /\ manifest = [content_ids |-> <<>>, complete |-> FALSE]
  /\ reader = [open |-> FALSE, pos |-> 0, buf |-> <<>>]
  /\ trace = [iters |-> 0, via |-> "none", items |-> <<>>, io_errors |-> 0,
              first |-> <<>>]

\* nothing has been allocated
NoHeap ==
  /\ cfg_test = FALSE
  /\ dealloc_enabled = TRUE
  /\ memory = <<>>
  /\ alloc_call = [op |-> "none", ptr |-> 0, enabled |-> TRUE, handed |-> {}]

Call(op, self, chunk, bytes, data, out) ==
  [op |-> op, self |-> self, chunk |-> chunk, bytes |-> bytes,
   data |-> data, out |-> out]

\* chunks a caller may present: sealed ones, an empty one for the held key,
\* and each of them with one field replaced
ChunkInputs ==
  LET blank == [encryption_type |-> "AesGcm", key_index |-> key.key_index,
                file_id |-> key.file_id, chunk_id |-> key.chunk_id,
                encrypted_data |-> <<>>]
      base == {s.chunk : s \in sealed} \cup {blank}
  IN base
     \cup {[c EXCEPT !.encryption_type = t] : c \in base, t \in EncryptionTypes}
     \cup {[c EXCEPT !.key_index = ki] : c \in base, ki \in KeyIndexes}
     \cup {[c EXCEPT !.file_id = f] : c \in base, f \in FileIds}
     \cup {[c EXCEPT !.chunk_id = p] : c \in base, p \in Positions}
     \cup UNION {{[c EXCEPT !.encrypted_data = SubSeq(c.encrypted_data, 1, n)] :
                    n \in {m \in {0, 5, NONCE_SIZE, NONCE_SIZE + TAG_SIZE - 1} :
                             m <= Len(c.encrypted_data)}} : c \in base}

\* byte strings a caller may hand to parse: serialized sealed chunks, cut
\* at every field boundary, with the tag byte replaced
ParseInputs ==
  LET full == {to_bytes(s.chunk) : s \in sealed}
      cut == {SubSeq(b, 1, n) : b \in full,
                n \in {0, 1, 4, 5, 16, 17, 24, 25, 28, 29}}
  IN full \cup cut
     \cup {[b EXCEPT ![1] = t] : b \in {x \in full \cup cut : Len(x) > 0},
                                 t \in TagBytes}

NoCall == Call("none", NoKey, NoChunk, <<>>, <<>>, NoResult)

Init ==
  /\ overflow_checks \in BOOLEAN
  /\ origin \in StartKeys
  /\ key = origin
  /\ steps = 0
  /\ sealed = {}
  /\ last = NoCall
  /\ NoFile
  /\ NoHeap

(* ------------------------------- actions ------------------------------- *)

\* the caller replaces the held key by the key a call returned
Advance(r) ==
  IF r.status = "Ok"
  THEN key' = r.key /\ steps' = steps + 1
  ELSE UNCHANGED <<key, steps>>

NextKey ==
  /\ last = NoCall
  /\ steps < MaxSteps
  /\ LET r == next_key(key, overflow_checks)
     IN /\ last' = Call("next_key", key, NoChunk, <<>>, <<>>, r)
        /\ Advance(r)
  /\ UNCHANGED <<overflow_checks, origin, sealed>>
  /\ UNCHANGED <<fileVars, allocVars>>

IterNext ==
  /\ last = NoCall
  /\ steps < MaxSteps
  /\ LET r == IteratorNext(key, overflow_checks)
     IN /\ last' = Call("next", key, NoChunk, <<>>, <<>>, r)
        /\ Advance(r)
  /\ UNCHANGED <<overflow_checks, origin, sealed>>
  /\ UNCHANGED <<fileVars, allocVars>>

RatchetTo ==
  /\ last = NoCall
  /\ steps < MaxSteps
  /\ \E c \in ChunkInputs :
       /\ can_ratchet_to(key, c) => WithinReach(key, c)
       /\ LET r == ratchet_to(key, c, overflow_checks)
          IN /\ last' = Call("ratchet_to", key, c, <<>>, <<>>, r)
             /\ Advance(r)
  /\ UNCHANGED <<overflow_checks, origin, sealed>>
  /\ UNCHANGED <<fileVars, allocVars>>

Encrypt ==
  /\ last = NoCall
  /\ steps < MaxSteps
  /\ Cardinality(sealed) < MaxSealed
  /\ \E data \in Plaintexts, nonce \in Nonces :
       LET r == encrypt(key, data, nonce, overflow_checks)
       IN /\ last' = Call("encrypt", key, NoChunk, <<>>, data, r)
          /\ Advance(r)
          /\ sealed' = IF r.status = "Ok"
                       THEN sealed \cup {[chunk |-> r.chunk, data |-> data,
                                          key |-> key]}
                       ELSE sealed
  /\ UNCHANGED <<overflow_checks, origin>>
  /\ UNCHANGED <<fileVars, allocVars>>

Decrypt ==
  /\ last = NoCall
  /\ \E k \in {origin, key}, c \in ChunkInputs :
       /\ can_ratchet_to(k, c) => WithinReach(k, c)
       /\ last' = Call("decrypt", k, c, <<>>, <<>>,
                       decrypt(k, c, overflow_checks))
  /\ UNCHANGED <<overflow_checks, origin, key, steps, sealed>>
  /\ UNCHANGED <<fileVars, allocVars>>

ToBytes ==
  /\ last = NoCall
  /\ \E c \in ChunkInputs :
       last' = Call("to_bytes", NoKey, c, <<>>, <<>>, OkData(to_bytes(c)))
  /\ UNCHANGED <<overflow_checks, origin, key, steps, sealed>>
  /\ UNCHANGED <<fileVars, allocVars>>

Parse ==
  /\ last = NoCall
  /\ \E b \in ParseInputs :
       last' = Call("parse", NoKey, NoChunk, b, <<>>, parse(b))
  /\ UNCHANGED <<overflow_checks, origin, key, steps, sealed>>
  /\ UNCHANGED <<fileVars, allocVars>>

\* the caller has consumed the result of its last call
Return ==
  /\ last # NoCall
  /\ last' = NoCall
  /\ UNCHANGED <<overflow_checks, origin, key, steps, sealed>>
  /\ UNCHANGED <<fileVars, allocVars>>

Next ==
  \/ NextKey
  \/ IterNext
  \/ RatchetTo
  \/ Encrypt
  \/ Decrypt
  \/ ToBytes
  \/ Parse
  \/ Return

Spec == Init /\ [][Next]_vars

(* ------------------------------ producer ------------------------------- *)

\* the key key_for returns: position 0 of a file under a key index
FirstKeys ==
  {IndexedKeyFor(RootKeyIndex(RootKeyGenerate(PRK), <<1, 0>>),
                 [i \in 1..16 |-> 160 + i])}

InitProducer ==
  /\ overflow_checks \in BOOLEAN
  /\ origin \in FirstKeys
  /\ key = origin
  /\ steps = 0
  /\ sealed = {}
  /\ last = NoCall
  /\ NoFile
  /\ NoHeap

\* the producer encrypts its next chunk with the key the previous encrypt
\* returned, and holds no other key
Produce ==
  /\ last = NoCall
  /\ steps < MaxChunks
  /\ \E data \in Plaintexts, nonce \in Nonces :
       LET r == encrypt(key, data, nonce, overflow_checks)
       IN /\ last' = Call("encrypt", key, NoChunk, <<>>, data, r)
          /\ Advance(r)
          /\ sealed' = IF r.status = "Ok"
                       THEN sealed \cup {[chunk |-> r.chunk, data |-> data,
                                          key |-> key]}
                       ELSE sealed
  /\ UNCHANGED <<overflow_checks, origin>>
  /\ UNCHANGED <<fileVars, allocVars>>

NextProducer ==
  \/ Produce
  \/ Return

SpecProducer == InitProducer /\ [][NextProducer]_vars

(* ------------------------------- chunker ------------------------------- *)

\* file::CHUNK_SIZE of the build the tests run in
CHUNK_SIZE == 8

Min(a, b) == IF a <= b THEN a ELSE b

\* a UTF-8 continuation byte
Continuation(x) == x \in 128..191

RECURSIVE Utf8From(_, _)
\* the bytes of b from index i on are well-formed UTF-8
Utf8From(b, i) ==
  IF i > Len(b) THEN TRUE
  ELSE LET x == b[i]
       IN IF x < 128 THEN Utf8From(b, i + 1)
          ELSE IF x \in 194..223
          THEN /\ i + 1 <= Len(b)
               /\ Continuation(b[i + 1])
               /\ Utf8From(b, i + 2)
          ELSE IF x \in 224..239
          THEN /\ i + 2 <= Len(b)
               /\ b[i + 1] \in (IF x = 224 THEN 160..191
                                ELSE IF x = 237 THEN 128..159 ELSE 128..191)
               /\ Continuation(b[i + 2])
               /\ Utf8From(b, i + 3)
          ELSE IF x \in 240..244
          THEN /\ i + 3 <= Len(b)
               /\ b[i + 1] \in (IF x = 240 THEN 144..191
                                ELSE IF x = 244 THEN 128..143 ELSE 128..191)
               /\ Continuation(b[i + 2])
               /\ Continuation(b[i + 3])
               /\ Utf8From(b, i + 4)
          ELSE FALSE

\* str::from_utf8 accepts the bytes
from_utf8(b) == Utf8From(b, 1)

\* what an iterator hands out: Some(Ok(buffer)), Some(Err(e)) or None
SomeOk(buffer) == [kind |-> "Ok", buffer |-> buffer, err |-> ""]
SomeErr(e) == [kind |-> "Err", buffer |-> <<>>, err |-> e]
None == [kind |-> "None", buffer |-> <<>>, err |-> ""]

\* the new reader goes on where the last one stopped
BufReaderOpenResuming == [open |-> TRUE, pos |-> reader.pos, buf |-> <<>>]

\* new_buf and BufReader::open: an empty buffer, the file at its first byte
BufReaderOpen == [open |-> TRUE, pos |-> 0, buf |-> <<>>]

\* Read::take(CHUNK_SIZE).read_to_string(buf) on an empty buf: reads to the
\* limit or to the end of the file, then validates what it read; a read
\* that fails has consumed `consumed` bytes before it; the bytes are
\* appended to buf only when they are UTF-8
read_to_string(self, bytes, fail, consumed) ==
  LET avail == Len(bytes) - self.pos
      got == IF fail THEN Min(consumed, Min(CHUNK_SIZE - 1, avail))
             ELSE Min(CHUNK_SIZE, avail)
      read == SubSeq(bytes, self.pos + 1, self.pos + got)
      valid == from_utf8(read)
  IN [pos |-> self.pos + got,
      buf |-> IF valid THEN read ELSE <<>>,
      err |-> IF fail THEN "Io(Other)"
              ELSE IF ~valid THEN "Io(InvalidData)" ELSE "",
      u |-> got]

\* BufReader::next: the buffer is cleared when no one else holds it and
\* replaced by a new one otherwise, so the read starts from an empty buffer
BufReaderNext(self, bytes, fail, consumed) ==
  LET r == read_to_string(self, bytes, fail, consumed)
  IN [reader |-> [self EXCEPT !.pos = r.pos, !.buf = r.buf],
      item |-> IF r.err # "" THEN SomeErr(r.err)
               ELSE IF r.u = 0 THEN None
               ELSE SomeOk(r.buf)]

\* FileChunk::new
FileChunkNew(buf) == [buffer |-> buf]

\* FileChunk::content_id: the SHA-256 of the buffer
content_id(self) ==
  LET d == Digest(self.buffer)
  IN [i \in 1..32 |-> IF i = 1 THEN d % 256
                      ELSE IF i = 2 THEN d \div 256
                      ELSE (d + 7 * i + Len(self.buffer)) % 256]

\* FileManifest::new
FileManifestNew == [content_ids |-> <<>>, complete |-> FALSE]

\* the content id goes to the front of the list
add_front(self, chunk) ==
  [self EXCEPT !.content_ids = <<content_id(chunk)>> \o @]

\* FileManifest::add
add(self, chunk) ==
  [self EXCEPT !.content_ids = Append(@, content_id(chunk))]

\* the flag is left as it is
mark_complete_never(self) == self

\* FileManifest::mark_complete
mark_complete(self) == [self EXCEPT !.complete = TRUE]

\* FileIterator::next
FileIteratorNext(buf_reader, file_manifest, bytes, fail, consumed) ==
  LET b == BufReaderNext(buf_reader, bytes, fail, consumed)
  IN IF b.item.kind = "Ok"
     THEN LET chunk == FileChunkNew(b.item.buffer)
          IN [reader |-> b.reader, manifest |-> add(file_manifest, chunk),
              item |-> SomeOk(chunk.buffer)]
     ELSE IF b.item.kind = "Err"
     THEN [reader |-> b.reader, manifest |-> file_manifest,
           item |-> SomeErr(b.item.err)]
     ELSE [reader |-> b.reader, manifest |-> mark_complete(file_manifest),
           item |-> None]

RECURSIVE ChunkLoop(_, _, _, _, _, _, _)
\* the loop of File::chunk: next() until None or the first error; the
\* failAt-th read fails when failAt > 0
ChunkLoop(buf_reader, file_manifest, bytes, items, failAt, consumed, fuel) ==
  LET n == FileIteratorNext(buf_reader, file_manifest, bytes,
                            failAt = 1, consumed)
  IN IF n.item.kind # "Ok" \/ fuel = 0
     THEN [manifest |-> n.manifest, items |-> Append(items, n.item)]
     ELSE ChunkLoop(n.reader, n.manifest, bytes, Append(items, n.item),
                    IF failAt > 0 THEN failAt - 1 ELSE 0, consumed, fuel - 1)

\* File::chunk: a new iterator, run to its end or to its first error
chunk(file_manifest, bytes, failAt, consumed) ==
  ChunkLoop(BufReaderOpen, file_manifest, bytes, <<>>, failAt, consumed,
            Len(bytes) + 1)

\* files on disk: text of every length up to MaxFileLen, alone, with a
\* two-byte character before or across the first chunk boundary, or with a
\* byte there that is not UTF-8
Ascii(n) == [i \in 1..n |-> 97 + ((i - 1) % 26)]
SpecialAt == {CHUNK_SIZE - 1, CHUNK_SIZE}
Disks ==
  {Ascii(n) : n \in 0..MaxFileLen}
    \cup {[Ascii(q[1]) EXCEPT ![q[2]] = 195, ![q[2] + 1] = 169] :
            q \in {x \in (0..MaxFileLen) \X SpecialAt : x[2] + 1 <= x[1]}}
    \cup {[Ascii(q[1]) EXCEPT ![q[2]] = 255] :
            q \in {x \in (0..MaxFileLen) \X SpecialAt : x[2] <= x[1]}}

\* no key is held
NoKeys ==
  /\ overflow_checks = FALSE
  /\ origin = NoKey
  /\ key = NoKey
  /\ steps = 0
  /\ sealed = {}
  /\ last = NoCall

\* File::open: an empty manifest for the file at path
InitFile ==
  /\ disk \in Disks
  /\ manifest = FileManifestNew
  /\ reader = [open |-> FALSE, pos |-> 0, buf |-> <<>>]
  /\ trace = [iters |-> 0, via |-> "none", items |-> <<>>, io_errors |-> 0,
              first |-> <<>>]
  /\ NoKeys
  /\ NoHeap

\* the reads that may fail now, and how many bytes a failing read consumed:
\* io::BufReader fails when it fills its buffer, before the first byte of
\* the call or after the last byte it still held
Failures ==
  IF trace.io_errors < MaxIoErrors
  THEN {<<FALSE, 0>>, <<TRUE, 0>>, <<TRUE, CHUNK_SIZE - 1>>}
  ELSE {<<FALSE, 0>>}

\* the first pass that returns None with no failed read is kept
Recorded(items) ==
  IF /\ trace.first = <<>>
     /\ items[Len(items)].kind = "None"
     /\ \A i \in 1..Len(items) : items[i].err # "Io(Other)"
  THEN items
  ELSE trace.first

IoErrors(items) ==
  Cardinality({i \in 1..Len(items) : items[i].err = "Io(Other)"})

\* File::iter: a new BufReader on the path; an earlier iterator is gone
FileIter ==
  /\ trace.iters < MaxIters
  /\ reader' = BufReaderOpen
  /\ trace' = [trace EXCEPT !.iters = @ + 1, !.via = "iter", !.items = <<>>]
  /\ UNCHANGED <<disk, manifest>>
  /\ UNCHANGED <<cryptoVars, allocVars>>

\* FileIterator::next on the live iterator; an iterator that has answered
\* None twice in a row is not asked again
FileNext ==
  /\ reader.open
  /\ Len(trace.items) < MaxNexts
  /\ Len(trace.items) >= 2 =>
       \/ trace.items[Len(trace.items)].kind # "None"
       \/ trace.items[Len(trace.items) - 1].kind # "None"
  /\ \E f \in Failures :
       LET n == FileIteratorNext(reader, manifest, disk, f[1], f[2])
           items == Append(trace.items, n.item)
       IN /\ reader' = n.reader
          /\ manifest' = n.manifest
          /\ trace' = [trace EXCEPT !.items = items,
                                    !.io_errors = @ + IoErrors(<<n.item>>),
                                    !.first = Recorded(items)]
  /\ UNCHANGED disk
  /\ UNCHANGED <<cryptoVars, allocVars>>

\* File::chunk; its iterator is dropped when it returns
FileChunk ==
  /\ trace.iters < MaxIters
  /\ \E f \in Failures, failAt \in 0..MaxNexts :
       /\ f[1] <=> failAt > 0
       /\ LET r == chunk(manifest, disk, failAt, f[2])
          IN /\ manifest' = r.manifest
             /\ reader' = [open |-> FALSE, pos |-> 0, buf |-> <<>>]
             /\ trace' = [trace EXCEPT !.iters = @ + 1, !.via = "chunk",
                                       !.items = r.items,
                                       !.io_errors = @ + IoErrors(r.items),
                                       !.first = Recorded(r.items)]
  /\ UNCHANGED disk
  /\ UNCHANGED <<cryptoVars, allocVars>>

NextFile ==
  \/ FileIter
  \/ FileNext
  \/ FileChunk

SpecFile == InitFile /\ [][NextFile]_vars

FileTypeOK ==
  /\ manifest.complete \in BOOLEAN
  /\ trace.iters \in 0..MaxIters
  /\ Len(trace.items) <= MaxNexts
  /\ reader.pos <= Len(disk)

(* ------------------------- BufReader and its Rc ------------------------ *)

\* Strings on the heap are named by the numbers 1, 2, ...; the reader holds
\* one reference to its buffer and the caller one to each buffer it keeps

\* the buffer is handed out for writing whoever else holds it
get_mut_whoever(rc, holders) == TRUE

\* Rc::get_mut: Some when the reader's reference is the only one
get_mut(rc, holders) == rc \notin holders

\* the name new_buf gives to the String it allocates
NewBuf(bufs) == CHOOSE n \in 1..(Cardinality(DOMAIN bufs) + 1) :
                  n \notin DOMAIN bufs

\* BufReader::next with the buffers told apart: a buffer no one else holds
\* is cleared and read into, otherwise self.buf becomes a new String and
\* the old one stays with its holders
BufReaderNextRc(self, cur, bufs, holders, bytes, fail, consumed) ==
  LET unique == get_mut(cur, holders)
      target == IF unique THEN cur ELSE NewBuf(bufs)
      b == BufReaderNext(self, bytes, fail, consumed)
  IN [reader |-> b.reader,
      cur |-> target,
      bufs |-> [n \in DOMAIN bufs \cup {target} |->
                  IF n = target THEN b.reader.buf ELSE bufs[n]],
      item |-> b.item,
      reused |-> target = cur]

\* BufReader::open on the file at path
InitReader ==
  /\ disk \in Disks
  /\ manifest = FileManifestNew
  /\ reader = BufReaderOpen
  /\ trace = [cur |-> 1, bufs |-> [n \in {1} |-> <<>>],
              held |-> [n \in {} |-> <<>>], calls |-> 0, io_errors |-> 0,
              reused |-> FALSE, shared |-> FALSE]
  /\ NoKeys
  /\ NoHeap

\* BufReader::next; the caller keeps the Rc of a chunk it is given
ReaderNext ==
  /\ trace.calls < MaxNexts
  /\ \E f \in Failures :
       LET r == BufReaderNextRc(reader, trace.cur, trace.bufs,
                                DOMAIN trace.held, disk, f[1], f[2])
       IN /\ reader' = r.reader
          /\ trace' =
               [cur |-> r.cur,
                bufs |-> r.bufs,
                held |-> IF r.item.kind = "Ok"
                         THEN [n \in DOMAIN trace.held \cup {r.cur} |->
                                 IF n = r.cur THEN r.item.buffer
                                 ELSE trace.held[n]]
                         ELSE trace.held,
                calls |-> trace.calls + 1,
                io_errors |-> trace.io_errors + IoErrors(<<r.item>>),
                reused |-> r.reused,
                shared |-> trace.cur \in DOMAIN trace.held]
  /\ UNCHANGED <<disk, manifest>>
  /\ UNCHANGED <<cryptoVars, allocVars>>

\* the caller drops the Rc of a chunk; a String no one refers to is freed
ReaderDrop ==
  /\ \E n \in DOMAIN trace.held :
       trace' = [trace EXCEPT
                   !.held = [m \in DOMAIN trace.held \ {n} |-> trace.held[m]],
                   !.bufs = [m \in DOMAIN trace.bufs
                                     \ (IF n = trace.cur THEN {} ELSE {n}) |->
                               trace.bufs[m]]]
  /\ UNCHANGED <<disk, manifest, reader>>
  /\ UNCHANGED <<cryptoVars, allocVars>>

NextReader ==
  \/ ReaderNext
  \/ ReaderDrop

SpecReader == InitReader /\ [][NextReader]_vars

ReaderTypeOK ==
  /\ trace.cur \in DOMAIN trace.bufs
  /\ DOMAIN trace.held \subseteq DOMAIN trace.bufs
  /\ trace.calls \in 0..MaxNexts
  /\ reader.pos <= Len(disk)

(* ------------------------------ allocator ------------------------------ *)

\* a block the inner allocator holds, and one it has handed out; `owned`
\* says the program has not passed the block to dealloc yet
FreeBlock == [state |-> "free", size |-> 0, bytes |-> <<>>, owned |-> FALSE]
Block(size, bytes) ==
  [state |-> "allocated", size |-> size, bytes |-> bytes, owned |-> TRUE]

Ptrs == 1..MaxBlocks
Layouts == 1..MaxSize

\* what a block holds when it is handed out, and what the program writes
StaleBytes == {0, 170}
SecretBytes == {1, 255}

AllocCall(op, ptr, enabled, handed) ==
  [op |-> op, ptr |-> ptr, enabled |-> enabled, handed |-> handed]

\* ZeroizeAllocator::new
InitAlloc ==
  /\ cfg_test \in BOOLEAN
  /\ dealloc_enabled = TRUE
  /\ memory = [p \in Ptrs |-> FreeBlock]
  /\ alloc_call = AllocCall("none", 0, TRUE, {})
  /\ NoKeys
  /\ NoFile

\* Zeroize for [u8]
zeroize(slice) == [i \in 1..Len(slice) |-> 0]

\* the inner allocator's dealloc: the block is its own again; `handed` keeps
\* the bytes the block held at that moment
inner_dealloc(mem, handed, ptr, layout) ==
  [memory |-> [mem EXCEPT ![ptr] = FreeBlock],
   handed |-> handed \cup {[ptr |-> ptr, size |-> layout,
                            bytes |-> SubSeq(mem[ptr].bytes, 1, layout)]}]

\* ZeroizeAllocator::test_dealloc
test_dealloc(enabled, mem, ptr, layout) ==
  IF enabled THEN inner_dealloc(mem, {}, ptr, layout)
  ELSE [memory |-> mem, handed |-> {}]

\* the bytes are cleared only on the way to the inner allocator
dealloc_clearing_on_release(test, enabled, mem, ptr, layout) ==
  LET cleared == [mem EXCEPT ![ptr].bytes =
                    zeroize(SubSeq(@, 1, layout))
                      \o SubSeq(@, layout + 1, Len(@))]
  IN IF test THEN test_dealloc(enabled, IF enabled THEN cleared ELSE mem,
                               ptr, layout)
     ELSE inner_dealloc(cleared, {}, ptr, layout)

\* GlobalAlloc::dealloc: layout.size() bytes at ptr are zeroed, then the
\* block goes to test_dealloc in a test build and to the inner allocator
\* otherwise
dealloc(test, enabled, mem, ptr, layout) ==
  LET cleared == [mem EXCEPT ![ptr].bytes =
                    zeroize(SubSeq(@, 1, layout))
                      \o SubSeq(@, layout + 1, Len(@))]
  IN IF test THEN test_dealloc(enabled, cleared, ptr, layout)
     ELSE inner_dealloc(cleared, {}, ptr, layout)

RECURSIVE Drain(_, _, _)
\* the loop of enable_dealloc over the queue, lowest address first
Drain(mem, handed, queue) ==
  IF queue = {} THEN [memory |-> mem, handed |-> handed]
  ELSE LET ptr == CHOOSE q \in queue : \A o \in queue : q <= o
           r == inner_dealloc(mem, handed, ptr, mem[ptr].size)
       IN Drain(r.memory, r.handed, queue \ {ptr})

\* GlobalAlloc::alloc: the inner allocator hands out one of its blocks
Alloc ==
  /\ \E ptr \in {p \in Ptrs : memory[p].state = "free"},
        layout \in Layouts, stale \in StaleBytes :
       /\ memory' = [memory EXCEPT
                       ![ptr] = Block(layout, [i \in 1..layout |-> stale])]
       /\ alloc_call' = AllocCall("alloc", ptr, dealloc_enabled, {})
  /\ UNCHANGED <<cfg_test, dealloc_enabled>>
  /\ UNCHANGED <<cryptoVars, fileVars>>

\* the program fills a block it owns
Write ==
  /\ \E ptr \in {p \in Ptrs : memory[p].owned}, b \in SecretBytes :
       /\ memory' = [memory EXCEPT
                       ![ptr].bytes = [i \in 1..memory[ptr].size |-> b]]
       /\ alloc_call' = AllocCall("write", ptr, dealloc_enabled, {})
  /\ UNCHANGED <<cfg_test, dealloc_enabled>>
  /\ UNCHANGED <<cryptoVars, fileVars>>

\* GlobalAlloc::dealloc on a block the program owns, with its layout
Dealloc ==
  /\ \E ptr \in {p \in Ptrs : memory[p].owned} :
       LET r == dealloc(cfg_test, dealloc_enabled, memory, ptr,
                        memory[ptr].size)
       IN /\ memory' = [r.memory EXCEPT ![ptr].owned = FALSE]
          /\ alloc_call' = AllocCall("dealloc", ptr, dealloc_enabled,
                                     r.handed)
  /\ UNCHANGED <<cfg_test, dealloc_enabled>>
  /\ UNCHANGED <<cryptoVars, fileVars>>

\* ZeroizeAllocator::disable_dealloc
DisableDealloc ==
  /\ cfg_test
  /\ dealloc_enabled
  /\ dealloc_enabled' = FALSE
  /\ alloc_call' = AllocCall("disable_dealloc", 0, dealloc_enabled, {})
  /\ UNCHANGED <<cfg_test, memory>>
  /\ UNCHANGED <<cryptoVars, fileVars>>

\* ZeroizeAllocator::enable_dealloc with a queue of blocks that were passed
\* to dealloc while the switch was off
EnableDealloc ==
  /\ cfg_test
  /\ ~dealloc_enabled
  /\ \E queue \in SUBSET {p \in Ptrs : /\ memory[p].state = "allocated"
                                       /\ ~memory[p].owned} :
       LET r == Drain(memory, {}, queue)
       IN /\ memory' = r.memory
          /\ alloc_call' = AllocCall("enable_dealloc", 0, dealloc_enabled,
                                     r.handed)
  /\ dealloc_enabled' = TRUE
  /\ UNCHANGED cfg_test
  /\ UNCHANGED <<cryptoVars, fileVars>>

NextAlloc ==
  \/ Alloc
  \/ Write
  \/ Dealloc
  \/ DisableDealloc
  \/ EnableDealloc

SpecAlloc == InitAlloc /\ [][NextAlloc]_vars

AllocTypeOK ==
  /\ cfg_test \in BOOLEAN
  /\ dealloc_enabled \in BOOLEAN
  /\ \A p \in Ptrs : Len(memory[p].bytes) = memory[p].size
  /\ ~cfg_test => dealloc_enabled

TypeOK ==
  /\ overflow_checks \in BOOLEAN
  /\ steps \in 0..MaxSteps
  /\ Cardinality(sealed) <= MaxSealed
  /\ last.out.status \in {"None", "Ok", "Err", "Panic", "NoneOpt"}

(* ------------------------------ properties ----------------------------- *)

RECURSIVE KeyAfter(_, _)
\* the key j next_key steps after k, or NoKey when a step does not return one
KeyAfter(k, j) ==
  IF j = 0 THEN k
  ELSE LET r == next_key(k, TRUE)
       IN IF r.status = "Ok" THEN KeyAfter(r.key, j - 1) ELSE NoKey

(* ------------------------------ iterator ------------------------------- *)

\* keys used as iterators: the first MaxRatchet successors of the keys
\* key_for returns, and a key next to the end of the u64 range
IteratorKeys ==
  {KeyAfter(IndexedKeyFor(RootKeyIndex(RootKeyGenerate(PRK), ki), f), n) :
     ki \in KeyIndexes, f \in FileIds, n \in 0..MaxRatchet}
    \cup {k \in StartKeys : k.chunk_id # Word(0, 4)}

InitIterator ==
  /\ overflow_checks \in BOOLEAN
  /\ origin \in IteratorKeys
  /\ key = origin
  /\ steps = 0
  /\ sealed = {}
  /\ last = NoCall
  /\ NoFile
  /\ NoHeap

\* Iterator::next on the same key once more: next takes &mut self, calls
\* next_key and assigns nothing to self
NextAgain ==
  /\ last = NoCall
  /\ steps < MaxSteps
  /\ last' = Call("next", key, NoChunk, <<>>, <<>>,
                  IteratorNext(key, overflow_checks))
  /\ steps' = steps + 1
  /\ UNCHANGED <<overflow_checks, origin, key, sealed>>
  /\ UNCHANGED <<fileVars, allocVars>>

NextIterator ==
  \/ NextAgain
  \/ Return

SpecIterator == InitIterator /\ [][NextIterator]_vars

\* C1: a key at position n decrypts every chunk that encrypt produced on a
\* key j >= 0 next_key steps ahead of it, and returns the plaintext sealed
C1_DecryptsChunksAhead ==
  last.op = "decrypt" =>
    \A s \in sealed :
      (s.chunk = last.chunk
         /\ \E j \in 0..MaxRatchet : KeyAfter(last.self, j) = s.key)
        => last.out = OkData(s.data)

\* C2: decrypting with k the chunk that k.encrypt(m) returned yields m
C2_RoundTrip ==
  last.op = "decrypt" =>
    \A s \in sealed :
      (s.chunk = last.chunk /\ s.key = last.self)
        => last.out = OkData(s.data)

C2_Witness ==
  /\ last.op = "decrypt"
  /\ \E s \in sealed :
       /\ s.chunk = last.chunk
       /\ s.key = last.self
       /\ Len(s.data) > 0
       /\ last.out.data = s.data

\* C3: parse(to_bytes(c)) succeeds and returns c in all five fields
C3_CodecRoundTrip ==
  last.op = "parse" =>
    \A s \in sealed :
      last.bytes = to_bytes(s.chunk) => last.out = OkChunk(s.chunk)

\* C4: to_bytes emits 29 + len(encrypted_data) bytes: the tag, key_index
\* little-endian, the 16 file_id bytes, chunk_id little-endian, then
\* encrypted_data unchanged
C4_WireLayout ==
  last.op = "to_bytes" =>
    LET c == last.chunk
        b == last.out.data
    IN /\ last.out.status = "Ok"
       /\ Len(b) = 29 + Len(c.encrypted_data)
       /\ b[1] = (IF c.encryption_type = "AesGcm" THEN 0 ELSE 1)
       /\ \A i \in 1..2 : b[2 * i] + 256 * b[2 * i + 1] = c.key_index[i]
       /\ \A i \in 2..5 : b[i] \in 0..255
       /\ SubSeq(b, 6, 21) = c.file_id
       /\ \A i \in 1..4 : b[20 + 2 * i] + 256 * b[21 + 2 * i] = c.chunk_id[i]
       /\ \A i \in 22..29 : b[i] \in 0..255
       /\ SubSeq(b, 30, Len(b)) = c.encrypted_data

C4_Witness ==
  /\ last.op = "to_bytes"
  /\ last.chunk.key_index = <<513, 1027>>
  /\ last.chunk.chunk_id = <<65534, 65535, 65535, 65535>>
  /\ Len(last.chunk.encrypted_data) > NONCE_SIZE
  /\ Len(last.out.data) > 29

\* C5: parse of an input shorter than the 29-byte header returns an error
\* value: it neither aborts nor returns a chunk
C5_ShortInputIsAnError ==
  (last.op = "parse" /\ Len(last.bytes) < 29) => last.out.status = "Err"

\* C6: parse maps tag 0 to AesGcm and tag 1 to XChaCha20Poly1305, and fails
\* with InvalidEncryptionType(v) for every other tag byte v, whatever follows
C6_TagMapping ==
  (last.op = "parse" /\ Len(last.bytes) >= 1) =>
    LET v == last.bytes[1]
    IN /\ v \notin {0, 1} => last.out = Err("InvalidEncryptionType", v)
       /\ v \in {0, 1} => last.out.err # "InvalidEncryptionType"
       /\ last.out.status = "Ok" =>
            /\ v \in {0, 1}
            /\ v = 0 => last.out.chunk.encryption_type = "AesGcm"
            /\ v = 1 => last.out.chunk.encryption_type = "XChaCha20Poly1305"

C6_Witness ==
  /\ last.op = "parse"
  /\ Len(last.bytes) >= 29
  /\ last.bytes[1] = 255
  /\ last.out = Err("InvalidEncryptionType", 255)

\* C7 as stated: parse rejects every input whose tag byte is 1 with
\* InvalidEncryptionType
C7_ParseRejectsReservedTag ==
  (last.op = "parse" /\ Len(last.bytes) >= 1 /\ last.bytes[1] = 1)
    => last.out = Err("InvalidEncryptionType", 1)

\* C7 amended: parse never answers tag 1 with InvalidEncryptionType and
\* returns an XChaCha20Poly1305 chunk once the input holds 25 bytes; decrypt
\* returns no plaintext for such a chunk and fails with
\* InvalidEncryptionType(1) when the chunk is the key's own
C7_ReservedTagRejectedAtDecrypt ==
  /\ (last.op = "parse" /\ Len(last.bytes) >= 1 /\ last.bytes[1] = 1) =>
       /\ last.out.status # "Err"
       /\ Len(last.bytes) >= 25 =>
            /\ last.out.status = "Ok"
            /\ last.out.chunk.encryption_type = "XChaCha20Poly1305"
  /\ (last.op = "decrypt"
        /\ last.chunk.encryption_type = "XChaCha20Poly1305") =>
       /\ last.out.status # "Ok"
       /\ is_key_for(last.self, last.chunk)
            => last.out = Err("InvalidEncryptionType", 1)

C7_Witness ==
  /\ last.op = "parse"
  /\ Len(last.bytes) >= 29
  /\ last.bytes[1] = 1
  /\ last.out.status = "Ok"
  /\ last.out.chunk.encryption_type = "XChaCha20Poly1305"

\* C8: ratchet_to succeeds iff key_index and file_id agree and the key's
\* chunk_id is below the chunk's; otherwise it returns InvalidChunkDerive
C8_RatchetPrecondition ==
  last.op = "ratchet_to" =>
    LET k == last.self
        c == last.chunk
        ahead == /\ k.key_index = c.key_index
                 /\ k.file_id = c.file_id
                 /\ k.chunk_id # c.chunk_id
                 /\ \E i \in 1..4 :
                      /\ k.chunk_id[i] < c.chunk_id[i]
                      /\ \A j \in (i + 1)..4 : k.chunk_id[j] = c.chunk_id[j]
    IN /\ ahead <=> last.out.status = "Ok"
       /\ ~ahead => last.out = Err("InvalidChunkDeriveError", 0)

C8_Witness ==
  /\ last.op = "ratchet_to"
  /\ last.out.status = "Ok"
  /\ last.out.key.chunk_id = WordAdd(last.self.chunk_id, 2)

\* C9: every key obtained from k by next_key, ratchet_to, Iterator::next and
\* encrypt keeps k's key_index and file_id and has a strictly greater
\* chunk_id
C9_ChainOnlyMovesForward ==
  steps > 0 =>
    /\ key.key_index = origin.key_index
    /\ key.file_id = origin.file_id
    /\ WordLt(origin.chunk_id, key.chunk_id)

\* C10: next_key on a key at chunk_id u64::MAX fails with InvalidChunkDerive;
\* it neither aborts nor returns a key whose chunk_id wrapped to 0
C10_NextKeyAtMaxFails ==
  (last.op = "next_key" /\ last.self.chunk_id = U64_MAX)
    => last.out = Err("InvalidChunkDeriveError", 0)

\* C11: decrypt of a chunk whose encryption_type is not AesGcm fails with
\* InvalidEncryptionType whatever the chunk's identifiers are: its own
\* position, ahead of the key, behind it, or another file or key index
C11_TypeCheckedBeforeRatchet ==
  (last.op = "decrypt" /\ last.chunk.encryption_type # "AesGcm")
    => last.out = Err("InvalidEncryptionType",
                      EncryptionTypeToU8(last.chunk.encryption_type))

\* a chunk names another file or another key index than the key
Foreign(k, c) == k.file_id # c.file_id \/ k.key_index # c.key_index

\* C12: for a chunk of another file_id or key_index, is_key_for and
\* can_ratchet_to are both false and decrypt returns no plaintext: it ends
\* in InvalidChunkDerive
C12_ForeignChunkRejected ==
  (last.op = "decrypt" /\ Foreign(last.self, last.chunk)) =>
    /\ ~is_key_for(last.self, last.chunk)
    /\ ~can_ratchet_to(last.self, last.chunk)
    /\ last.out = Err("InvalidChunkDeriveError", 0)

\* a chunk sealed by the key is presented under the other file's id
C12_Witness ==
  /\ last.op = "decrypt"
  /\ last.self.file_id # last.chunk.file_id
  /\ last.self.key_index = last.chunk.key_index
  /\ last.self.chunk_id = last.chunk.chunk_id
  /\ \E s \in sealed :
       /\ s.key = last.self
       /\ s.chunk = [last.chunk EXCEPT !.file_id = last.self.file_id]
  /\ last.out = Err("InvalidChunkDeriveError", 0)


\* C13: a producer that starts from key_for and encrypts each chunk with
\* the key the previous encrypt returned emits chunk_ids 0, 1, 2, ... in
\* order, with no gap and no repeat, all under its key_index and file_id
C13_ProducerCountsUp ==
  /\ key.chunk_id = Word(steps, 4)
  /\ Cardinality(sealed) = steps
  /\ {s.chunk.chunk_id : s \in sealed} = {Word(i, 4) : i \in 0..(steps - 1)}
  /\ \A s \in sealed :
       /\ s.chunk.key_index = origin.key_index
       /\ s.chunk.file_id = origin.file_id
  /\ last.op = "encrypt" =>
       /\ last.out.status = "Ok"
       /\ last.out.chunk.chunk_id = Word(steps - 1, 4)

C13_Witness ==
  /\ last.op = "encrypt"
  /\ steps = 3
  /\ last.out.chunk.chunk_id = Word(2, 4)
  /\ {s.chunk.chunk_id : s \in sealed} = {Word(0, 4), Word(1, 4), Word(2, 4)}

IsOk(item) == item.kind = "Ok"
IsNone(item) == item.kind = "None"

\* the buffers of the chunks among the items, in order
Buffers(items) ==
  LET ok == SelectSeq(items, IsOk)
  IN [i \in 1..Len(ok) |-> ok[i].buffer]

RECURSIVE Concat(_)
Concat(seqs) == IF seqs = <<>> THEN <<>> ELSE Head(seqs) \o Concat(Tail(seqs))

\* the live pass has returned None
Exhausted == \E i \in 1..Len(trace.items) : IsNone(trace.items[i])

\* the items of the live pass up to its first None
Pass ==
  LET n == CHOOSE i \in 1..Len(trace.items) :
             /\ IsNone(trace.items[i])
             /\ \A j \in 1..(i - 1) : ~IsNone(trace.items[j])
  IN SubSeq(trace.items, 1, n)

\* the first pass over the file is over: next() returned None, or chunk()
\* returned
FirstPassOver ==
  /\ trace.iters = 1
  /\ Exhausted \/ trace.via = "chunk"

\* C14: for any file, the first pass over a File, with no failed read,
\* yields chunks whose concatenation is the file's content; every chunk but
\* the last has CHUNK_SIZE bytes, none is empty, and there are
\* ceil(size / CHUNK_SIZE) of them
C14_ChunksRebuildFile ==
  (FirstPassOver /\ trace.io_errors = 0) =>
    LET chunks == Buffers(trace.items)
    IN /\ Concat(chunks) = disk
       /\ \A i \in 1..Len(chunks) :
            /\ Len(chunks[i]) > 0
            /\ i < Len(chunks) => Len(chunks[i]) = CHUNK_SIZE
       /\ Len(chunks) = (Len(disk) + CHUNK_SIZE - 1) \div CHUNK_SIZE

\* C15: once the first pass over a File has returned None the manifest
\* holds the content id of each chunk yielded, in order, and complete is
\* true; until then complete is false
C15_ManifestMatchesChunks ==
  trace.iters = 1 =>
    /\ Exhausted =>
         /\ manifest.complete
         /\ manifest.content_ids =
              [i \in 1..Len(Buffers(trace.items)) |->
                 content_id(FileChunkNew(Buffers(trace.items)[i]))]
    /\ ~Exhausted => ~manifest.complete

C15_Witness ==
  /\ trace.iters = 1
  /\ Exhausted
  /\ Len(manifest.content_ids) = 3
  /\ manifest.content_ids[1] # manifest.content_ids[2]

\* C16: when a read fails before the first pass has returned None, complete
\* is false from then on, whatever further next() calls are made on that
\* pass
C16_ErrorLeavesIncomplete ==
  (/\ trace.iters = 1
   /\ \E i \in 1..Len(trace.items) :
        /\ trace.items[i].kind = "Err"
        /\ \A j \in 1..(i - 1) : ~IsNone(trace.items[j]))
    => ~manifest.complete

\* C17: on a file of zero bytes the first next() returns None, the manifest
\* has no content id and complete is true
C17_EmptyFile ==
  (/\ disk = <<>>
   /\ trace.iters = 1
   /\ trace.io_errors = 0
   /\ Len(trace.items) >= 1) =>
    /\ trace.items[1] = None
    /\ manifest = [content_ids |-> <<>>, complete |-> TRUE]

C17_Witness ==
  /\ disk = <<>>
  /\ trace.iters = 1
  /\ trace.via = "iter"
  /\ trace.items = <<None>>
  /\ manifest.complete

\* C18: every pass over a File starts at byte 0: a pass that runs to None
\* with no failed read yields the items the first such pass yielded,
\* however far the iterators before it were taken
C18_RestartFromZero ==
  (/\ Exhausted
   /\ \A i \in 1..Len(Pass) : Pass[i].err # "Io(Other)")
    => Pass = trace.first

\* a full pass, then a pass dropped after one chunk, then a full pass
C18_Witness ==
  /\ trace.iters = 3
  /\ trace.io_errors = 0
  /\ Exhausted
  /\ Len(trace.first) = 4
  /\ Pass = trace.first
  /\ Len(manifest.content_ids) = 7

\* C19: every dealloc zeroes the layout.size() bytes at ptr before the
\* block reaches the inner allocator, whether or not the release is
\* switched on; with the switch off the block is zeroed and not released
C19_ZeroedBeforeRelease ==
  /\ \A h \in alloc_call.handed : h.bytes = [i \in 1..h.size |-> 0]
  /\ alloc_call.op = "dealloc" =>
       LET released == cfg_test => alloc_call.enabled
           block == memory[alloc_call.ptr]
       IN /\ released =>
               /\ block.state = "free"
               /\ \E h \in alloc_call.handed :
                    h.ptr = alloc_call.ptr /\ h.size > 0
          /\ ~released =>
               /\ block.state = "allocated"
               /\ ~block.owned
               /\ block.size > 0
               /\ block.bytes = [i \in 1..block.size |-> 0]
               /\ alloc_call.handed = {}
  /\ \A p \in Ptrs :
       (memory[p].state = "allocated" /\ ~memory[p].owned)
         => memory[p].bytes = [i \in 1..memory[p].size |-> 0]

\* a block of secret bytes is passed to dealloc while the switch is off
C19_Witness ==
  /\ cfg_test
  /\ alloc_call.op = "dealloc"
  /\ ~alloc_call.enabled
  /\ memory[alloc_call.ptr].state = "allocated"
  /\ memory[alloc_call.ptr].bytes = <<0, 0>>

C21_ParseFieldOffsets ==
  (last.op = "parse" /\ last.out.status = "Ok") =>
    /\ last.out.chunk.key_index = from_le_bytes(Slice(last.bytes, 1, 5))
    /\ last.out.chunk.file_id = Slice(last.bytes, 5, 21)
    /\ last.out.chunk.chunk_id = from_le_bytes(Slice(last.bytes, 21, 29))
    /\ last.out.chunk.encrypted_data = Slice(last.bytes, 29, Len(last.bytes))

\* C22: a ratchet_to that succeeds has taken exactly
\* c.chunk_id - k.chunk_id next_key steps: it returns the key that many
\* steps after k, with k's key_index and file_id and c's chunk_id, for
\* which is_key_for(c) holds
C22_RatchetLandsOnChunk ==
  (last.op = "ratchet_to" /\ last.out.status = "Ok") =>
    /\ \E j \in 1..MaxRatchet :
         /\ WordAdd(last.self.chunk_id, j) = last.chunk.chunk_id
         /\ last.out.key = KeyAfter(last.self, j)
    /\ last.out.key.key_index = last.self.key_index
    /\ last.out.key.file_id = last.self.file_id
    /\ last.out.key.chunk_id = last.chunk.chunk_id
    /\ is_key_for(last.out.key, last.chunk)

\* a ratchet over two positions from a key that is itself a successor
C22_Witness ==
  /\ last.op = "ratchet_to"
  /\ last.out.status = "Ok"
  /\ last.self = origin
  /\ last.out.key = KeyAfter(origin, 2)
  /\ last.out.key.full_key # KeyAfter(origin, 1).full_key

\* C23: encrypt returns an AesGcm chunk with the key's key_index, file_id
\* and chunk_id whose encrypted_data is the nonce, the ciphertext and the
\* tag, 12 + len(m) + 16 bytes, and a next key one position after the key
C23_EncryptStampsChunk ==
  last.op = "encrypt" =>
    /\ last.out.status = "Ok"
    /\ last.out.chunk.encryption_type = "AesGcm"
    /\ last.out.chunk.key_index = last.self.key_index
    /\ last.out.chunk.file_id = last.self.file_id
    /\ last.out.chunk.chunk_id = last.self.chunk_id
    /\ Len(last.out.chunk.encrypted_data)
         = NONCE_SIZE + Len(last.data) + TAG_SIZE
    /\ \E nonce \in Nonces :
         last.out.chunk.encrypted_data
           = nonce \o AeadSeal(encryption_key(last.self.full_key), nonce,
                               last.data)
    /\ last.out.key.chunk_id = WrappingSucc(last.self.chunk_id)
    /\ WordLt(last.self.chunk_id, last.out.key.chunk_id)

\* C24: decrypt of an AesGcm chunk whose encrypted_data has fewer than
\* 12 + 16 bytes returns an error: it does not abort and returns no
\* plaintext
C24_ShortDataIsAnError ==
  (/\ last.op = "decrypt"
   /\ last.chunk.encryption_type = "AesGcm"
   /\ Len(last.chunk.encrypted_data) < NONCE_SIZE + TAG_SIZE)
    => last.out.status = "Err"

\* the chunks of a file: CHUNK_SIZE bytes each, the last one what is left
FileChunks(bytes) ==
  [i \in 1..((Len(bytes) + CHUNK_SIZE - 1) \div CHUNK_SIZE) |->
     SubSeq(bytes, (i - 1) * CHUNK_SIZE + 1, Min(i * CHUNK_SIZE, Len(bytes)))]

\* C25: after any sequence of iter(), next() and chunk() calls on one File,
\* a manifest that is complete holds exactly the content ids of the file's
\* chunks, one per chunk in chunk order
C25_CompleteManifestIsExact ==
  manifest.complete =>
    manifest.content_ids =
      [i \in 1..Len(FileChunks(disk)) |->
         content_id(FileChunkNew(FileChunks(disk)[i]))]

\* C26: the j-th call of Iterator::next on a key at position n returns the
\* key at chunk_id n + j, so successive calls return keys of strictly
\* increasing chunk_id
C26_IteratorCountsUp ==
  last.op = "next" =>
    /\ last.out.status = "Ok"
    /\ last.out.key.chunk_id = WordAdd(origin.chunk_id, steps)
    /\ WordLt(origin.chunk_id, last.out.key.chunk_id)

\* C27: a chunk buffer the caller still holds keeps the content it was
\* yielded with through every later next(): the reader writes into its
\* buffer only when no one else holds it and takes a new one otherwise
C27_HeldBuffersKeepContent ==
  /\ \A n \in DOMAIN trace.held :
       /\ n \in DOMAIN trace.bufs
       /\ trace.bufs[n] = trace.held[n]
  /\ trace.calls > 0 => (trace.reused <=> ~trace.shared)

\* two chunks are held, the first of CHUNK_SIZE bytes, and the reader has
\* read on into a third buffer
C27_Witness ==
  /\ Cardinality(DOMAIN trace.held) = 2
  /\ trace.cur \notin DOMAIN trace.held
  /\ \E n, m \in DOMAIN trace.held :
       /\ Len(trace.held[n]) = CHUNK_SIZE
       /\ trace.held[n] # trace.held[m]
       /\ trace.bufs[n] = trace.held[n]
       /\ trace.bufs[m] = trace.held[m]

====
